---- MODULE Spec2Model ----
(***************************************************************************)
(* Pagination and transition engine of pretty-pdf-viewer.                  *)
(*                                                                         *)
(* The model follows PrettyPDFViewer (load, renderCurrentSpread,           *)
(* getOrRenderPage, goToPage, nextPage, previousPage, resize handler,      *)
(* destroy), BookLayout (currentSpread, getSpreadForPage, hidePages,       *)
(* showPages), PageRenderer (renderCache) and the flip driver              *)
(* (FlipAnimation / ThreeJSFlipAnimation).                                 *)
(*                                                                         *)
(* JavaScript runs one thread: a step of the model is the run of one       *)
(* call or continuation from one real suspension (document fetch, page     *)
(* handle, rasterization, flip animation) to the next.  An await of a      *)
(* value that is already there (cache hit, early return) only yields to    *)
(* the microtask queue, so the model runs through it.                      *)
(***************************************************************************)
EXTENDS Integers, Sequences, FiniteSets, TLC

\* ---------------------------------------------------------------- bounds
MaxPages == 3          \* the pages of the longest document
MaxTasks == 2          \* calls in flight at the same time
MaxOps == 4            \* API calls and resize events of one run
MaxSeqOps == 5         \* the same, when the client awaits each call
MaxLiveOps == 2        \* the same, in the runs of SpecLive
MaxLiveTasks == 1      \* calls in flight at the same time, in those runs
BadPage == 2           \* the page whose rasterization fails, when one does
MaxZoomOps == 3        \* the same as MaxOps, in the runs with zoom calls
LongPages == 10        \* the pages of the long document of the page-turning runs
MaxNavOps == 3         \* the same as MaxOps, in the page-turning runs
MaxDropOps == 4        \* the same as MaxOps, in the runs of overlapping calls
MaxBusyOps == 3        \* the same as MaxOps, in the short runs of the same
MaxAutoOps == 2        \* the same, the constructor's load included

\* ------------------------------------------------------------- constants
useThreeJS == TRUE     \* options.useThreeJS ?? true
initialZoom == 10      \* options.initialZoom ?? 1.0, in tenths
MinZoom == 5           \* 0.5, the smallest zoom level
MaxZoom == 30          \* 3.0, the largest zoom level
ZoomStep == 2          \* 0.2, the step of zoomIn and zoomOut

VARIABLES
    pdfDoc,            \* PrettyPDFViewer.pdfDoc (0 = null, else the document)
    parserDoc,         \* PDFParser.pdfDoc (0 = null)
    totalPages,        \* PrettyPDFViewer.totalPages
    currentPage,       \* PrettyPDFViewer.currentPage
    pageCache,         \* PrettyPDFViewer.pageCache: page -> raster
    renderCache,       \* PageRenderer.renderCache: page -> raster
    gen,               \* canvases created so far for each page number
    currentSpread,     \* BookLayout.currentSpread <<left, right>> (0 = null)
    shown,             \* rasters in the left and right page containers
    visible,           \* visibility of the page containers
    isAnimating,       \* PrettyPDFViewer.isAnimating
    drvAnimating,      \* ThreeJSFlipAnimation.isAnimating
    drvDisposed,       \* FlipAnimation.threeJSAnimation was disposed
    destroyed,         \* destroy() was called
    loaded,            \* a load() has resolved (onLoad was called)
    currentZoom,       \* PrettyPDFViewer.currentZoom, in tenths
    currentScale,      \* BookLayout.currentScale, in tenths
    tasks,             \* the async calls in flight, one per slot
    ev,                \* what the last step did: calls, observers, settles
    nOps,              \* API calls made so far
    initialPage,       \* options.initialPage
    badPages           \* pages whose rasterization rejects

vars == <<pdfDoc, parserDoc, totalPages, currentPage, pageCache, renderCache,
          gen, currentSpread, shown, visible, isAnimating, drvAnimating,
          drvDisposed, destroyed, loaded, currentZoom, currentScale, tasks,
          ev, nOps, initialPage, badPages>>

\* ----------------------------------------------------------------- values
Pages == 1..LongPages
Docs == {MaxPages - 1, MaxPages}   \* document d has d pages: one odd, one even
\* the values of options.initialPage: pages of every document, and the page
\* after the last one of each document
InitialPages == {1, 2} \cup {d + 1 : d \in Docs}
BadSource == 0                 \* a source that cannot be fetched or parsed
Slots == 1..MaxTasks
None == <<>>                   \* no raster (undefined / null)
Blank == <<0, 0, 0>>           \* the raster of createEmptyCanvas()

DocPages(d) == d

EmptyCache == [p \in Pages |-> None]

CacheGet(c, p) == IF p \in DOMAIN c THEN c[p] ELSE None

Task0 ==
    [kind |-> "none", op |-> "", ctx |-> "", stage |-> "", page |-> 0,
     animate |-> FALSE, total |-> 0, before |-> 0, oldPage |-> 0,
     cs |-> <<0, 0>>, ts |-> <<0, 0>>,
     lnum |-> 0, rnum |-> 0, lcanvas |-> None, fpc |-> "", fpage |-> 0,
     fdoc |-> 0, fcanvas |-> None, cv |-> <<>>, src |-> 0, pre |-> <<>>,
     drvRejected |-> FALSE, cause |-> "", reloaded |-> FALSE,
     flips |-> <<>>, prior |-> <<>>, auto |-> FALSE]

\* an entry of ev; inflight: the goToPage calls in flight when it was made
Ev(e, op, page, total, ok, t) ==
    [e |-> e, op |-> op, page |-> page, total |-> total, ok |-> ok, t |-> t,
     inflight |-> 0]

\* ------------------------------------------------------- BookLayout, pure
getSpreadForPage(page, total) ==
    IF page = 1 THEN <<1, 2>>
    ELSE IF page = total /\ total % 2 = 1 THEN <<total, 0>>
    ELSE IF page % 2 = 0 THEN <<page, page + 1>>
    ELSE <<page - 1, page>>

\* -------------------------------------------------- the state as a record
Pack ==
    [pdfDoc |-> pdfDoc, parserDoc |-> parserDoc, totalPages |-> totalPages,
     currentPage |-> currentPage, pageCache |-> pageCache,
     renderCache |-> renderCache, gen |-> gen,
     currentSpread |-> currentSpread, shown |-> shown, visible |-> visible,
     isAnimating |-> isAnimating, drvAnimating |-> drvAnimating,
     loaded |-> loaded, tasks |-> tasks, ev |-> <<>>, throws |-> FALSE]

\* the state of a step in which a flip, if the step starts one, throws or not
PackT(throws) == [Pack EXCEPT !.throws = throws]

Commit(s0) ==
    \E s \in {s0} :
    /\ pdfDoc' = s.pdfDoc
    /\ parserDoc' = s.parserDoc
    /\ totalPages' = s.totalPages
    /\ currentPage' = s.currentPage
    /\ pageCache' = s.pageCache
    /\ renderCache' = s.renderCache
    /\ gen' = s.gen
    /\ currentSpread' = s.currentSpread
    /\ shown' = s.shown
    /\ visible' = s.visible
    /\ isAnimating' = s.isAnimating
    /\ drvAnimating' = s.drvAnimating
    /\ loaded' = s.loaded
    /\ tasks' = s.tasks
    /\ ev' = s.ev

\* F(e), with e evaluated once
Once(e, F(_)) == CHOOSE r \in {F(x) : x \in {e}} : TRUE

T(s, i) == s.tasks[i]
SetT(s, i, t) == [s EXCEPT !.tasks[i] = t]
Emit(s, e) == [s EXCEPT !.ev = Append(@, e)]

\* the call of task i settles: its promise resolves (ok) or rejects; the
\* constructor has attached onError as the rejection handler of the load
\* that it started
Settle(s0, i, ok) ==
    LET Run(s) ==
        LET t == T(s, i)
            s1 == IF t.auto /\ ~ok
                  THEN Emit(s, Ev("onError", t.op, s.currentPage,
                                  s.totalPages, FALSE, Task0))
                  ELSE s
        IN
        SetT(Emit(s1, Ev("settled", t.op, s.currentPage, s.totalPages, ok, t)),
             i, Task0)
    IN Once(s0, Run)

\* a goToPage whose finally block shows the pages again and leaves
\* isAnimating as it is
GotoFinallyKeepsFlag(s0, i, ok) ==
    LET Run(s) == Settle([s EXCEPT !.visible = TRUE], i, ok)
    IN Once(s0, Run)

\* a goToPage whose finally block resets isAnimating and leaves the pages
\* hidden
GotoFinallyKeepsHidden(s0, i, ok) ==
    LET Run(s) == Settle([s EXCEPT !.isAnimating = FALSE], i, ok)
    IN Once(s0, Run)

\* goToPage, finally block
GotoFinally(s0, i, ok) ==
    LET Run(s) ==
        Settle([s EXCEPT !.isAnimating = FALSE, !.visible = TRUE], i, ok)
    IN Once(s0, Run)

RECURSIVE Go(_, _, _, _)


\* getOrRenderPage(p), up to its first real suspension
Fetch(s0, i, p) ==
    LET Run(s) ==
        LET cached == CacheGet(s.pageCache, p) IN
        IF cached # None THEN Go(s, i, "FetchDone", <<TRUE, cached, "">>)
        ELSE IF s.pdfDoc = 0 THEN Go(s,
           i, "FetchDone", <<FALSE, None, "nodoc">>)
        ELSE SetT(s, i, [T(s, i) EXCEPT !.fpc = "getPage", !.fpage = p,
                                        !.fdoc = s.parserDoc])
    IN Once(s0, Run)

\* renderCurrentSpread, from its entry to its first real suspension
StartRCS(s0, i, ctx) ==
    LET Run(s) ==
        LET s1 == SetT(s, i, [T(s, i) EXCEPT !.ctx = ctx, !.stage = ""]) IN
        IF s1.pdfDoc = 0 THEN Go(s1, i, "RCSReturn", <<>>)
        ELSE IF s1.currentPage = 1 THEN
            Go(SetT(s1, i, [T(s1, i) EXCEPT !.stage = "single1"]),
               i, "Fetch", <<1>>)
        ELSE IF s1.totalPages % 2 = 1 /\ s1.currentPage = s1.totalPages THEN
            Go(SetT(s1, i, [T(s1, i) EXCEPT !.stage = "singleLast"]),
               i, "Fetch", <<s1.totalPages>>)
        ELSE
            LET l == IF s1.currentPage % 2 = 0 THEN s1.currentPage
                     ELSE s1.currentPage - 1
                r == IF s1.currentPage % 2 = 0 THEN s1.currentPage + 1
                     ELSE s1.currentPage
            IN Go(SetT(s1, i, [T(s1, i) EXCEPT !.stage = "left", !.lnum = l,
                                                  !.rnum = r]),
                                                     i, "Fetch", <<l>>)
    IN Once(s0, Run)

\* renderCurrentSpread, after the spread was recorded: the observer call
RCSTail(s0, i) ==
    LET Run(s) ==
        Go(Emit(s, Ev("onPageChange", T(s, i).op, s.currentPage,
                      s.totalPages, s.isAnimating, Task0)), i,
           "RCSReturn", <<>>)
    IN Once(s0, Run)

\* renderCurrentSpread resolved: back in its caller
RCSReturn(s0, i) ==
    LET Run(s) ==
        LET ctx == T(s, i).ctx IN
        IF ctx = "load" THEN
            Settle(Emit([s EXCEPT !.loaded = TRUE],
                        Ev("onLoad", "load", s.currentPage, s.totalPages,
                           TRUE, Task0)), i, TRUE)
        ELSE IF ctx \in {"gotoS", "gotoR"} THEN GotoFinally(s, i, TRUE)
        ELSE Settle(s, i, TRUE)
    IN Once(s0, Run)

\* renderCurrentSpread rejected: back in its caller
RCSFail(s0, i, cause) ==
    LET Run(s) ==
        LET ctx == T(s, i).ctx
            s1 == SetT(s, i, [T(s, i) EXCEPT !.cause = cause])
        IN
        IF ctx = "load" THEN
            Settle(Emit(s1, Ev("onError", "load", s.currentPage, s.totalPages,
                               FALSE, Task0)), i, FALSE)
        ELSE IF ctx = "gotoS" THEN Go(s1, i, "GotoCatch", <<cause>>)
        ELSE IF ctx = "gotoR" THEN GotoFinally(s1, i, FALSE)
        ELSE Settle(s1, i, FALSE)
    IN Once(s0, Run)

\* goToPage without its catch and finally blocks: the error leaves at once
GotoCatchNoFinally(s0, i, cause) ==
    LET Run(s) ==
        Settle(SetT(s, i, [T(s, i) EXCEPT !.cause = cause]), i, FALSE)
    IN Once(s0, Run)

\* goToPage, catch block
GotoCatch(s0, i, cause) ==
    LET Run(s) ==
        LET t == T(s, i) IN
        Go(SetT([s EXCEPT !.currentPage = t.oldPage], i,
                      [t EXCEPT !.cause = cause]), i, "StartRCS", <<"gotoR">>)
    IN Once(s0, Run)

NextStage(stage) ==
    IF stage = "cl" THEN "cr" ELSE IF stage = "cr" THEN "tl" ELSE "tr"

StagePage(t, stage) ==
    IF stage = "cl" THEN t.cs[1] ELSE IF stage = "cr" THEN t.cs[2]
    ELSE IF stage = "tl" THEN t.ts[1] ELSE t.ts[2]

\* goToPage: one of the four rasters is there
GotoGot(s0, i, stage, c) ==
    LET Run(s) ==
        LET s1 == SetT(s, i, [T(s, i) EXCEPT !.cv = Append(@, c)]) IN
        IF stage = "tr" THEN Go(s1, i, "FlipStart", <<>>)
        ELSE Go(s1, i, "GotoFetchFrom", <<NextStage(stage)>>)
    IN Once(s0, Run)

\* goToPage: the raster of one slot, or an empty canvas for a null slot
GotoFetchFrom(s0, i, stage) ==
    LET Run(s) ==
        LET p == StagePage(T(s, i), stage) IN
        IF p # 0 THEN
            Go(SetT(s, i, [T(s, i) EXCEPT !.ctx = "gotoT", !.stage = stage]),
               i, "Fetch", <<p>>)
        ELSE Go(s, i, "GotoGot", <<stage, Blank>>)
    IN Once(s0, Run)

\* goToPage: the direction of the flip of transition t
direction(t) == IF t.page > t.oldPage THEN "forward" ELSE "backward"

\* flipForward / flipBackward of the driver, up to its suspension: the
\* CSS flip once the three.js driver is gone, else the three.js flip, which
\* returns at once while its own isAnimating is set. The transition records
\* in flips which of the two it invoked. A flip whose set-up
\* throws (textures, meshes, the first frame) rejects before it suspends,
\* and the three.js driver has set its isAnimating by then.
FlipStart(s0, i) ==
    LET Run(s1) ==
        LET s == SetT(s1, i, [T(s1, i) EXCEPT
                                !.flips = Append(@, direction(T(s1, i)))])
            rejected == SetT(s, i, [T(s, i) EXCEPT !.drvRejected = TRUE])
        IN
        IF drvDisposed THEN
            IF s.throws THEN Go(rejected, i, "GotoCatch", <<"driver">>)
            ELSE SetT(s, i, [T(s, i) EXCEPT !.ctx = "flip", !.stage = "css"])
        ELSE IF s.drvAnimating THEN Go(s, i, "FlipOk", <<>>)
        ELSE IF s.throws THEN
            Go([rejected EXCEPT !.drvAnimating = TRUE],
               i, "GotoCatch", <<"driver">>)
        ELSE SetT([s EXCEPT !.drvAnimating = TRUE], i,
                  [T(s, i) EXCEPT !.ctx = "flip", !.stage = "three"])
    IN Once(s0, Run)

\* goToPage after the flip resolved
FlipOk(s0, i) ==
    LET Run(s) ==
        Go([s EXCEPT !.currentPage = T(s, i).page], i, "StartRCS", <<"gotoS">>)
    IN Once(s0, Run)

\* the continuation of the caller of getOrRenderPage
FetchDone(s0, i, ok, c, cause) ==
    LET Run(s) ==
        LET t == T(s, i)
            s1 == SetT(s, i, [t EXCEPT !.fpc = "", !.fpage = 0, !.fdoc = 0,
                                       !.fcanvas = None])
        IN
        IF t.ctx = "gotoT" THEN
            IF ok THEN Go(s1, i, "GotoGot", <<t.stage, c>>)
            ELSE Go(s1, i, "GotoCatch", <<cause>>)
        ELSE IF ~ok THEN Go(s1, i, "RCSFail", <<cause>>)
        ELSE IF t.stage = "single1" THEN
            Go([s1 EXCEPT !.shown = <<c, None>>,
                               !.currentSpread = <<1, 0>>], i, "RCSTail", <<>>)
        ELSE IF t.stage = "singleLast" THEN
            Go([s1 EXCEPT !.shown = <<c, None>>,
                               !.currentSpread = <<s1.totalPages, 0>>],
                                  i, "RCSTail", <<>>)
        ELSE IF t.stage = "left" THEN
            IF t.rnum <= s1.totalPages THEN
                Go(SetT(s1, i, [T(s1, i) EXCEPT !.stage = "right",
                                                   !.lcanvas = c]),
                                                      i, "Fetch", <<t.rnum>>)
            ELSE Go([s1 EXCEPT !.shown = <<c, None>>,
                                    !.currentSpread = <<t.lnum, t.rnum>>],
                                       i, "RCSTail", <<>>)
        ELSE
            Go([s1 EXCEPT !.shown = <<t.lcanvas, c>>,
                               !.currentSpread = <<t.lnum, t.rnum>>],
                                  i, "RCSTail", <<>>)
    IN Once(s0, Run)

\* getOrRenderPage after pdfDoc.getPage settled: PageRenderer.renderPage
AfterGetPage(s0, i) ==
    LET Run(s) ==
        LET t == T(s, i)
            p == t.fpage
        IN
        IF p \notin 1..DocPages(t.fdoc) THEN Go(s,
           i, "FetchDone", <<FALSE, None, "getPage">>)
        ELSE IF s.renderCache[p] # None THEN
            Go([s EXCEPT !.pageCache[p] = s.renderCache[p]],
               i, "FetchDone", <<TRUE, s.renderCache[p], "">>)
        ELSE IF p \in badPages THEN
            Emit(SetT(s, i, [t EXCEPT !.fpc = "render",
                                      !.fcanvas = <<t.fdoc, p, 0>>]),
                 Ev("rasterize", t.op, p, s.totalPages, TRUE, Task0))
        ELSE
            Emit(SetT([s EXCEPT !.gen[p] = @ + 1], i,
                      [t EXCEPT !.fpc = "render",
                                !.fcanvas = <<t.fdoc, p, s.gen[p] + 1>>]),
                 Ev("rasterize", t.op, p, s.totalPages, TRUE, Task0))
    IN Once(s0, Run)

\* renderPage after page.render() settled, then getOrRenderPage stores it
AfterRender(s0, i) ==
    LET Run(s) ==
        LET t == T(s, i)
            p == t.fpage
        IN
        IF p \in badPages THEN Go(s, i, "FetchDone", <<FALSE, None, "render">>)
        ELSE Go([s EXCEPT !.renderCache[p] = t.fcanvas,
                                 !.pageCache[p] = t.fcanvas],
                                    i, "FetchDone", <<TRUE, t.fcanvas, "">>)
    IN Once(s0, Run)

\* the continuation k of call i, with its arguments a
Go(s, i, k, a) ==
    CASE k = "Fetch" -> Fetch(s, i, a[1])
      [] k = "FetchDone" -> FetchDone(s, i, a[1], a[2], a[3])
      [] k = "StartRCS" -> StartRCS(s, i, a[1])
      [] k = "RCSReturn" -> RCSReturn(s, i)
      [] k = "RCSFail" -> RCSFail(s, i, a[1])
      [] k = "RCSTail" -> RCSTail(s, i)
      [] k = "GotoCatch" -> GotoCatch(s, i, a[1])
      [] k = "GotoFetchFrom" -> GotoFetchFrom(s, i, a[1])
      [] k = "GotoGot" -> GotoGot(s, i, a[1], a[2])
      [] k = "FlipStart" -> FlipStart(s, i)
      [] k = "FlipOk" -> FlipOk(s, i)

\* ------------------------------------------------------------------ Init
Init ==
    /\ pdfDoc = 0
    /\ parserDoc = 0
    /\ totalPages = 0
    /\ currentPage = 1
    /\ pageCache = EmptyCache
    /\ renderCache = EmptyCache
    /\ gen = [p \in Pages |-> 0]
    /\ currentSpread = <<0, 0>>
    /\ shown = <<None, None>>
    /\ visible = TRUE
    /\ isAnimating = FALSE
    /\ drvAnimating = FALSE
    /\ drvDisposed = FALSE
    /\ destroyed = FALSE
    /\ loaded = FALSE
    /\ currentZoom = 10
    /\ currentScale = 10
    /\ tasks = [i \in Slots |-> Task0]
    /\ ev = <<>>
    /\ nOps = 0
    /\ initialPage \in InitialPages
    /\ badPages \in {{}, {BadPage}}

\* --------------------------------------------------------------- actions
FreeSlot == CHOOSE i \in Slots : tasks[i].kind = "none"
    /\ \A j \in Slots : tasks[j].kind = "none" => i <= j

Pending == Cardinality({i \in Slots : tasks[i].kind # "none"})

\* a call can be made: at most b calls a run, at most m of them in flight
CanCall(b, m) ==
    /\ ~destroyed
    /\ nOps < b
    /\ Pending < m

Frame ==
    UNCHANGED <<drvDisposed, destroyed, currentZoom, currentScale,
                initialPage, badPages>>

\* the nextPage or previousPage call that settled as a successful
\* transition in the step before this one, with the spread shown when it
\* was called: what a client that awaits its calls has just done
PriorNavigation ==
    LET S == {k \in DOMAIN ev :
                /\ ev[k].e = "settled"
                /\ ev[k].op \in {"nextPage", "previousPage"}
                /\ ev[k].ok /\ ev[k].t.ctx # "" /\ ev[k].t.cause = ""}
    IN IF S = {} THEN <<>>
       ELSE LET k == CHOOSE j \in S : TRUE IN <<ev[k].op, ev[k].t.cs>>

NewTask(kind) ==
    [Task0 EXCEPT !.kind = kind, !.before = currentPage, !.total = totalPages,
                  !.prior = IF kind = "goto" THEN PriorNavigation ELSE <<>>]

InFlight == Cardinality({i \in Slots : tasks[i].kind = "goto"})

\* load(source): up to the await of pdfParser.loadPDF
Load(b, m, src) ==
    /\ CanCall(b, m)
    /\ LET i == FreeSlot
           t == [NewTask("load") EXCEPT
                    !.op = "load", !.ctx = "load", !.stage = "loadPDF",
                    !.src = src,
                    !.pre = <<pdfDoc, totalPages, currentPage, pageCache>>]
           s == Emit(SetT(Pack, i, t), Ev("call", "load", src, 0, TRUE, Task0))
       IN Commit(s)
    /\ nOps' = nOps + 1
    /\ Frame

\* the constructor, given options.pdfFile: load(pdfFile).catch(onError),
\* before any call of the client
AutoLoad(b, src) ==
    /\ CanCall(b, 1)
    /\ nOps = 0
    /\ LET i == FreeSlot
           t == [NewTask("load") EXCEPT
                    !.op = "load", !.ctx = "load", !.stage = "loadPDF",
                    !.src = src, !.auto = TRUE,
                    !.pre = <<pdfDoc, totalPages, currentPage, pageCache>>]
           s == Emit(SetT(Pack, i, t), Ev("call", "load", src, 0, TRUE, Task0))
       IN Commit(s)
    /\ nOps' = nOps + 1
    /\ Frame

\* the navigation calls in flight have seen a load() assign the fields
MarkReloaded(s) ==
    [s EXCEPT !.tasks = [j \in Slots |->
        IF s.tasks[j].kind = "goto" THEN [s.tasks[j] EXCEPT !.reloaded = TRUE]
        ELSE s.tasks[j]]]

\* load: pdfParser.loadPDF settled; parse, the fields, the first spread
LoadPDFSettle(i) ==
    /\ tasks[i].kind = "load"
    /\ tasks[i].stage = "loadPDF"
    /\ LET t == tasks[i]
           s == MarkReloaded(Pack)
       IN IF t.src = BadSource THEN
              Commit(Settle(Emit(SetT(Pack, i, [t EXCEPT !.cause = "loadPDF"]),
                                 Ev("onError", "load", currentPage, totalPages,
                                    FALSE, Task0)), i, FALSE))
          ELSE
              Commit(Go([s EXCEPT !.parserDoc = t.src,
                                        !.pdfDoc = t.src,
                                        !.totalPages = DocPages(t.src),
                                        !.currentPage = initialPage],
                                           i, "StartRCS", <<"load">>))
    /\ UNCHANGED nOps
    /\ Frame

\* the window resize handler: flipAnimation.resize(); renderCurrentSpread()
Resize(b, m) ==
    /\ CanCall(b, m)
    /\ LET i == FreeSlot
           s == Emit(SetT(Pack, i, [NewTask("resize") EXCEPT !.op = "resize"]),
                     Ev("call", "resize", 0, 0, TRUE, Task0))
       IN Commit(Go(s, i, "StartRCS", <<"resize">>))
    /\ nOps' = nOps + 1
    /\ Frame

\* whether the flip throws, for a step that resumes call i: only the
\* fetches of an animated transition lead to a flip
Throws(i) == IF tasks[i].ctx = "gotoT" THEN BOOLEAN ELSE {FALSE}

\* pdfDoc.getPage(n) settled
GetPageSettle(i) ==
    /\ tasks[i].kind # "none"
    /\ tasks[i].fpc = "getPage"
    /\ \E throws \in Throws(i) : Commit(AfterGetPage(PackT(throws), i))
    /\ UNCHANGED nOps
    /\ Frame

\* page.render(...).promise settled
RenderSettle(i) ==
    /\ tasks[i].kind # "none"
    /\ tasks[i].fpc = "render"
    /\ \E throws \in Throws(i) : Commit(AfterRender(PackT(throws), i))
    /\ UNCHANGED nOps
    /\ Frame

\* a goToPage whose guard does not read isAnimating
GoToPageCallUnguarded(op, page, animate, throws) ==
    LET i == FreeSlot
        t0 == [NewTask("goto") EXCEPT !.op = op, !.page = page,
                                      !.animate = animate]
        rejected == page < 1 \/ page > totalPages \/ page = currentPage
        s0 == Emit(SetT(PackT(throws), i, t0),
                   [Ev("call", op, page, totalPages, ~rejected, Task0)
                       EXCEPT !.inflight = InFlight])
    IN
    IF rejected THEN Settle(s0, i, TRUE)
    ELSE IF ~animate \/ ~useThreeJS THEN
        Go([s0 EXCEPT !.currentPage = page], i, "StartRCS", <<"gotoN">>)
    ELSE
        Go(SetT([s0 EXCEPT !.isAnimating = TRUE, !.visible = FALSE], i,
                 [t0 EXCEPT !.oldPage = currentPage,
                            !.cs = currentSpread,
                            !.ts = getSpreadForPage(page, totalPages)]),
                               i, "GotoFetchFrom", <<"cl">>)

\* goToPage(page, animate), from the call to its first real suspension
GoToPageCall(op, page, animate, throws) ==
    LET i == FreeSlot
        t0 == [NewTask("goto") EXCEPT !.op = op, !.page = page,
                                      !.animate = animate]
        rejected == page < 1 \/ page > totalPages \/ page = currentPage
                    \/ isAnimating
        s0 == Emit(SetT(PackT(throws), i, t0),
                   [Ev("call", op, page, totalPages, ~rejected, Task0)
                       EXCEPT !.inflight = InFlight])
    IN
    IF rejected THEN Settle(s0, i, TRUE)
    ELSE IF ~animate \/ ~useThreeJS THEN
        Go([s0 EXCEPT !.currentPage = page], i, "StartRCS", <<"gotoN">>)
    ELSE
        Go(SetT([s0 EXCEPT !.isAnimating = TRUE, !.visible = FALSE], i,
                 [t0 EXCEPT !.oldPage = currentPage,
                            !.cs = currentSpread,
                            !.ts = getSpreadForPage(page, totalPages)]),
                               i, "GotoFetchFrom", <<"cl">>)

\* a navigation call that returns before it reaches goToPage
NoNavigation(op) ==
    LET i == FreeSlot
        t0 == [NewTask("goto") EXCEPT !.op = op]
    IN Settle(Emit(SetT(Pack, i, t0),
                   [Ev("call", op, 0, totalPages, FALSE, Task0)
                       EXCEPT !.inflight = InFlight]), i, TRUE)

GoToPage(b, m, page, animate, throws) ==
    /\ CanCall(b, m)
    /\ Commit(GoToPageCall("goToPage", page, animate, throws))
    /\ nOps' = nOps + 1
    /\ Frame

\* a nextPage that always turns two pages
nextPageNumByTwo == currentPage + 2

nextPageNum ==
    IF currentPage = 1 THEN 2
    ELSE IF currentPage % 2 = 0 THEN currentPage + 2 ELSE currentPage + 1

NextPage(b, m, throws) ==
    /\ CanCall(b, m)
    /\ IF currentPage >= totalPages \/ nextPageNum > totalPages
       THEN Commit(NoNavigation("nextPage"))
       ELSE Commit(GoToPageCall("nextPage", nextPageNum, TRUE, throws))
    /\ nOps' = nOps + 1
    /\ Frame

\* a previousPage that always turns two pages
prevPageNumByTwo == currentPage - 2

\* a previousPage that always turns three pages
prevPageNumByThree == currentPage - 3

prevPageNum ==
    IF currentPage = 2 \/ currentPage = 3 THEN 1
    ELSE IF currentPage % 2 = 0 THEN currentPage - 2 ELSE currentPage - 3

PreviousPage(b, m, throws) ==
    /\ CanCall(b, m)
    /\ IF currentPage <= 1 \/ prevPageNum < 1
       THEN Commit(NoNavigation("previousPage"))
       ELSE Commit(GoToPageCall("previousPage", prevPageNum, TRUE, throws))
    /\ nOps' = nOps + 1
    /\ Frame

\* the flip of the driver completed: the timer of the CSS flip, or the
\* frame of the three.js flip that follows the end of its tween, which
\* dispose() cancels
FlipSettle(i) ==
    /\ tasks[i].kind = "goto"
    /\ tasks[i].ctx = "flip"
    /\ IF tasks[i].stage = "css" THEN
           Commit(Go(Pack, i, "FlipOk", <<>>))
       ELSE
           /\ ~drvDisposed
           /\ Commit(Go([Pack EXCEPT !.drvAnimating = FALSE],
                        i, "FlipOk", <<>>))
    /\ UNCHANGED nOps
    /\ Frame

\* destroy(), once, as one of at most b calls
Destroy(b) ==
    /\ ~destroyed
    /\ nOps < b
    /\ drvDisposed' = TRUE
    /\ destroyed' = TRUE
    /\ shown' = <<None, None>>
    /\ renderCache' = EmptyCache
    /\ pageCache' = EmptyCache
    /\ ev' = <<Ev("call", "destroy", 0, 0, TRUE, Task0)>>
    /\ nOps' = nOps + 1
    /\ UNCHANGED <<pdfDoc, parserDoc, totalPages, currentPage, gen,
                   currentSpread, visible, isAnimating, drvAnimating, loaded,
                   currentZoom, currentScale, tasks, initialPage, badPages>>

\* the calls of the client and the events of the window: at most b of
\* them, at most m in flight
\* a setZoom that stores the level as it is given
clampZoomUnbounded(level) == level

\* Math.max(0.5, Math.min(3.0, level)), in tenths
clampZoom(level) ==
    LET capped == IF level < MaxZoom THEN level ELSE MaxZoom
    IN IF capped > MinZoom THEN capped ELSE MinZoom

\* the levels a client passes to setZoom: inside the range, on its ends and
\* beyond them
ZoomLevels ==
    {-50, MinZoom - 1, MinZoom, MinZoom + 1, initialZoom + ZoomStep,
     MaxZoom - 1, MaxZoom, MaxZoom + 1, 100}

\* a setZoom that also enters the animating state
setZoomBodyAnimating(op, asked, level) ==
    /\ currentZoom' = clampZoom(level)
    /\ currentScale' = currentZoom'
    /\ isAnimating' = TRUE
    /\ ev' = <<Ev("call", op, asked, currentZoom, TRUE, Task0)>>
    /\ nOps' = nOps + 1
    /\ UNCHANGED <<pdfDoc, parserDoc, totalPages, currentPage, pageCache,
                   renderCache, gen, currentSpread, shown, visible,
                   drvAnimating, drvDisposed, destroyed, loaded,
                   tasks, initialPage, badPages>>

\* the body of setZoom(level), called by op. It has no suspension point: it
\* stores the clamped level, rescales the layout and updates the control
\* bar. The call event carries the level asked for (page) and the level
\* before the call (total).
setZoomBody(op, asked, level) ==
    /\ currentZoom' = clampZoom(level)
    /\ currentScale' = currentZoom'
    /\ ev' = <<Ev("call", op, asked, currentZoom, TRUE, Task0)>>
    /\ nOps' = nOps + 1
    /\ UNCHANGED <<pdfDoc, parserDoc, totalPages, currentPage, pageCache,
                   renderCache, gen, currentSpread, shown, visible,
                   isAnimating, drvAnimating, drvDisposed, destroyed, loaded,
                   tasks, initialPage, badPages>>

CanZoom(b) ==
    /\ ~destroyed
    /\ nOps < b

SetZoom(b, level) ==
    /\ CanZoom(b)
    /\ setZoomBody("setZoom", level, level)

ZoomIn(b) ==
    /\ CanZoom(b)
    /\ LET sum == currentZoom + ZoomStep
           newZoom == IF sum < MaxZoom THEN sum ELSE MaxZoom
       IN setZoomBody("zoomIn", newZoom, newZoom)

ZoomOut(b) ==
    /\ CanZoom(b)
    /\ LET diff == currentZoom - ZoomStep
           newZoom == IF diff > MinZoom THEN diff ELSE MinZoom
       IN setZoomBody("zoomOut", newZoom, newZoom)

Zooms(b) ==
    \/ \E level \in ZoomLevels : SetZoom(b, level)
    \/ ZoomIn(b)
    \/ ZoomOut(b)

Calls(b, m) ==
    \/ \E src \in Docs \cup {BadSource} : Load(b, m, src)
    \/ \E page \in 0..(MaxPages + 1), animate \in BOOLEAN :
           \E throws \in (IF animate THEN BOOLEAN ELSE {FALSE}) :
               GoToPage(b, m, page, animate, throws)
    \/ \E throws \in BOOLEAN : NextPage(b, m, throws)
    \/ \E throws \in BOOLEAN : PreviousPage(b, m, throws)
    \/ Resize(b, m)

\* the collaborators settle what the calls in flight wait for
Settles ==
    \/ \E i \in Slots : LoadPDFSettle(i)
    \/ \E i \in Slots : GetPageSettle(i)
    \/ \E i \in Slots : RenderSettle(i)
    \/ \E i \in Slots : FlipSettle(i)

Next == Calls(MaxOps, MaxTasks) \/ Destroy(MaxOps) \/ Settles

Spec == Init /\ [][Next]_vars

\* The same program with a shorter run of calls, at most MaxLiveTasks of
\* them in flight, destroy() among or after them, and the scheduling of
\* the event loop: a promise of a collaborator that can settle does settle.
NextLive ==
    \/ Calls(MaxLiveOps, MaxLiveTasks)
    \/ Destroy(MaxLiveOps + 1)
    \/ Settles

Fairness == WF_vars(Settles)

SpecLive == Init /\ [][NextLive]_vars /\ Fairness

\* The program under a client that awaits each call before the next one.
AllSettled == Pending = 0

NextSeq ==
    \/ Calls(MaxSeqOps, 1)
    \/ (AllSettled /\ Destroy(MaxSeqOps))
    \/ Settles

SpecSeq == Init /\ [][NextSeq]_vars

\* The program constructed with or without options.pdfFile, under a client
\* that awaits its calls.
NextAuto ==
    \/ \E src \in Docs \cup {BadSource} : AutoLoad(MaxAutoOps, src)
    \/ Calls(MaxAutoOps, 1)
    \/ Settles

SpecAuto == Init /\ [][NextAuto]_vars

\* The program under a client that also zooms, at any time: a zoom call
\* does not wait for the calls in flight.
NextZoom ==
    \/ Calls(MaxZoomOps, 1)
    \/ Zooms(MaxZoomOps)
    \/ (AllSettled /\ Destroy(MaxZoomOps))
    \/ Settles

SpecZoom == Init /\ [][NextZoom]_vars

\* The program turning the pages of a long document, odd or even in length,
\* under a client that awaits each call before the next one.
LongDocs == {LongPages - 1, LongPages}

NextNav ==
    \/ \E src \in LongDocs : Load(MaxNavOps, 1, src)
    \/ \E page \in 1..LongPages : GoToPage(MaxNavOps, 1, page, FALSE, FALSE)
    \/ NextPage(MaxNavOps, 1, FALSE)
    \/ PreviousPage(MaxNavOps, 1, FALSE)
    \/ Settles

SpecNav == Init /\ [][NextNav]_vars

\* The program under a client that does not await its calls: loads and
\* navigation calls overlap; the options name the first page and every
\* page rasterizes.
InitDrop == Init /\ initialPage = 1 /\ badPages = {}

NextDrop ==
    \/ \E src \in Docs : Load(MaxDropOps, MaxTasks, src)
    \/ \E page \in 1..MaxPages, animate \in BOOLEAN :
           GoToPage(MaxDropOps, MaxTasks, page, animate, FALSE)
    \/ NextPage(MaxDropOps, MaxTasks, FALSE)
    \/ PreviousPage(MaxDropOps, MaxTasks, FALSE)
    \/ Settles

SpecDrop == InitDrop /\ [][NextDrop]_vars

\* A client that awaits its loads and not its goToPage calls, in shorter
\* runs, with the page numbers next to the document as targets too.
NextBusy ==
    \/ \E src \in Docs : AllSettled /\ Load(MaxBusyOps, MaxTasks, src)
    \/ \E page \in 0..(MaxPages + 1), animate \in BOOLEAN :
           GoToPage(MaxBusyOps, MaxTasks, page, animate, FALSE)
    \/ Settles

SpecBusy == InitDrop /\ [][NextBusy]_vars

\* ------------------------------------------------------------ properties
\* a spread whose present slots are pages of the document and, when both
\* are present, are an even page on the left and its successor on the right
SpreadOK(sp, total) ==
    /\ sp[1] # 0 => sp[1] \in 1..total
    /\ sp[2] # 0 => sp[2] \in 1..total
    /\ (sp[1] # 0 /\ sp[2] # 0) => (sp[1] + 1 = sp[2] /\ sp[1] % 2 = 0)

\* options.initialPage is a page of every document that is loaded
ValidInitialPage == initialPage \in 1..(MaxPages - 1)

\* a load() has completed, and options.initialPage was a page of the document
LoadedValid == loaded /\ ValidInitialPage

\* the goToPage calls (nextPage and previousPage included) that just settled
SettledGotos ==
    {k \in DOMAIN ev : ev[k].e = "settled" /\ ev[k].t.kind = "goto"}

\* C1: single-flight. With a document loaded from valid options, a goToPage
\* call made while an earlier goToPage call has not settled is refused,
\* whatever its animate flag: it starts nothing.
C1_SingleFlight ==
    \A k \in DOMAIN ev :
        (LoadedValid /\ ev[k].e = "call" /\ ev[k].op = "goToPage"
           /\ ev[k].inflight > 0)
            => ~ev[k].ok

\* C2: rollback. With a document loaded from valid options, when a goToPage
\* call whose flip the driver rejected settles, currentPage is what it was
\* before the call and isAnimating is false.
C2_RollbackOnDriverRejection ==
    \A k \in SettledGotos :
        (LoadedValid /\ ev[k].t.drvRejected)
            => (currentPage = ev[k].t.before /\ ~isAnimating)

\* C3: once a load() has completed, 1 <= currentPage <= totalPages in
\* every state.
C3_CurrentPageInRange ==
    loaded => (1 <= currentPage /\ currentPage <= totalPages)

\* C4: spread invariant. With a document loaded from valid options, for a
\* page of the document, the spread that getSpreadForPage computes for a
\* transition, and the spread that renderCurrentSpread records, have their
\* present slots in 1..totalPages and, when both are present, left + 1 =
\* right with left even.
C4_SpreadInvariant ==
    /\ \A i \in Slots :
          (LoadedValid /\ tasks[i].kind = "goto"
             /\ tasks[i].ctx \in {"gotoT", "flip"}
             /\ tasks[i].page \in 1..tasks[i].total)
          => SpreadOK(tasks[i].ts, tasks[i].total)
    /\ \A k \in DOMAIN ev :
          (LoadedValid /\ ev[k].e = "onPageChange"
             /\ ev[k].page \in 1..ev[k].total)
          => SpreadOK(currentSpread, totalPages)

\* C5: cover and back cover. With a document loaded from valid options, the
\* spread resolved for page 1 is {left: none, right: 1}; in a document of
\* an odd number N of pages the spread resolved for page N is
\* {left: N, right: none}.
C5_CoverBoundary ==
    /\ \A i \in Slots :
          (LoadedValid /\ tasks[i].kind = "goto"
             /\ tasks[i].ctx \in {"gotoT", "flip"})
          => /\ tasks[i].page = 1 => tasks[i].ts = <<0, 1>>
             /\ (tasks[i].total % 2 = 1 /\ tasks[i].page = tasks[i].total
                   /\ tasks[i].page # 1)
                => tasks[i].ts = <<tasks[i].total, 0>>
    /\ \A k \in DOMAIN ev :
          (LoadedValid /\ ev[k].e = "onPageChange")
          => /\ ev[k].page = 1 => currentSpread = <<0, 1>>
             /\ (ev[k].total % 2 = 1 /\ ev[k].page = ev[k].total
                   /\ ev[k].page # 1)
                => currentSpread = <<ev[k].total, 0>>

\* C6: cache coalescing. With valid options, no two calls are rasterizing
\* the same page of the same document at the same time: a fetch of a page
\* whose rasterization is pending joins it.
C6_CacheCoalescing ==
    \A i, j \in Slots :
        (ValidInitialPage /\ i # j /\ tasks[i].fpc = "render"
           /\ tasks[j].fpc = "render" /\ tasks[i].fdoc = tasks[j].fdoc)
            => tasks[i].fpage # tasks[j].fpage

\* C7: the last page alone on the left. With a document loaded from valid
\* options, an accepted transition to the last page N > 1, whose facing
\* page N + 1 does not exist, completes: it resolves with currentPage = N
\* and the right slot empty, and is not rolled back. (Transitions that a
\* failing rasterization or a rejecting driver ends are other cases.)
C7_LastPageAloneCompletes ==
    \A k \in SettledGotos :
        (LoadedValid /\ ev[k].t.ctx # "" /\ ev[k].t.page = ev[k].t.total
           /\ ev[k].t.page > 1 /\ ev[k].t.cause \notin {"render", "driver"})
        => (ev[k].ok /\ ev[k].t.cause = "" /\ currentPage = ev[k].t.page
            /\ shown[2] = None)

\* a flip of the three.js driver that destroy() interrupted: dispose()
\* cancels its frames, and its promise neither resolves nor rejects
FlipInterrupted ==
    /\ drvDisposed
    /\ \E i \in Slots : tasks[i].ctx = "flip" /\ tasks[i].stage = "three"

\* C8: liveness. Whenever isAnimating is true it is false again later,
\* whether the fetches and the flip of the transition resolve or reject
\* (a flip that destroy() interrupted does neither).
C8_TransitionReturnsToIdle ==
    isAnimating ~> (~isAnimating \/ FlipInterrupted)

\* C8, its case: an animated transition whose flip the driver rejected, or
\* one of whose fetches failed, has settled, and isAnimating is false.
C8_FailedTransitionSettled ==
    \E k \in SettledGotos :
        /\ ev[k].t.animate
        /\ ev[k].t.cause \in {"driver", "render", "getPage"}
        /\ ~isAnimating

\* C9: RenderError containment. With a document loaded from valid options,
\* a navigation call that met a failing rasterization does not reject, and
\* it ends on its target page (the bad page shown as a placeholder).
C9_RenderErrorContained ==
    \A k \in SettledGotos :
        (LoadedValid /\ ev[k].t.cause = "render")
            => (ev[k].ok /\ currentPage = ev[k].t.page)

\* C10: LoadError atomicity. With valid options, when a load() call
\* rejects, onError has been invoked and pdfDoc, totalPages, currentPage
\* and the page cache are what they were before the call.
C10_LoadErrorAtomic ==
    \A k \in DOMAIN ev :
        (ValidInitialPage /\ ev[k].e = "settled" /\ ev[k].t.kind = "load"
           /\ ~ev[k].ok)
        => /\ \E j \in DOMAIN ev : ev[j].e = "onError"
           /\ <<pdfDoc, totalPages, currentPage, pageCache>> = ev[k].t.pre

\* C11: with a document loaded from valid options, a navigation call whose
\* flip the driver rejected resolves (it does not reject), and currentPage is
\* what it was before the call.
C11_DriverRejectionResolves ==
    \A k \in SettledGotos :
        (LoadedValid /\ ev[k].t.drvRejected)
            => (ev[k].ok /\ currentPage = ev[k].t.before)

\* the navigation calls that just settled as successful transitions:
\* accepted, resolved, and not rolled back
SucceededGotos ==
    {k \in SettledGotos :
        ev[k].ok /\ ev[k].t.ctx # "" /\ ev[k].t.cause = ""}

\* the invocations of the page-changed observer in the last step
PageChanges == {j \in DOMAIN ev : ev[j].e = "onPageChange"}

\* C12: with a document loaded from valid options, a transition that
\* completes successfully invokes onPageChange exactly once, with its
\* target page and totalPages.
C12_OnePageChangePerTransition ==
    \A k \in SucceededGotos :
        LoadedValid
            => /\ Cardinality(PageChanges) = 1
               /\ \A j \in PageChanges :
                      ev[j].page = ev[k].t.page /\ ev[j].total = totalPages

\* the zoom calls of the last step
ZoomCalls ==
    {k \in DOMAIN ev :
        ev[k].e = "call" /\ ev[k].op \in {"setZoom", "zoomIn", "zoomOut"}}

Min(a, b) == IF a < b THEN a ELSE b

Max(a, b) == IF a > b THEN a ELSE b

\* C13: in tenths, setZoom(L) leaves the level at min(30, max(5, L)), zoomIn
\* at min(30, level + 2) and zoomOut at max(5, level - 2), where level is the
\* level before the call; the level is always within 5..30.
C13_ZoomClamped ==
    /\ currentZoom \in MinZoom..MaxZoom
    /\ \A k \in ZoomCalls :
           /\ ev[k].op = "setZoom"
                  => currentZoom = Min(30, Max(5, ev[k].page))
           /\ ev[k].op = "zoomIn"
                  => currentZoom = Min(30, ev[k].total + 2)
           /\ ev[k].op = "zoomOut"
                  => currentZoom = Max(5, ev[k].total - 2)

\* zoomIn from 2.9 has stopped at 3.0
C13_ZoomInStopsAtMax ==
    \E k \in ZoomCalls :
        ev[k].op = "zoomIn" /\ ev[k].total = 29 /\ currentZoom = 30

\* the calls of op that settled in the last step
SettledCalls(op) ==
    {k \in DOMAIN ev : ev[k].e = "settled" /\ ev[k].op = op}

\* a call that settled in the last step as a successful transition
Succeeded(k) == ev[k].ok /\ ev[k].t.ctx # "" /\ ev[k].t.cause = ""

\* C14: nextPage called at page p of n pages asks for page 2 if p = 1, p + 2
\* if p is even, p + 1 if p is odd and at least 3; it asks for nothing and
\* leaves currentPage at p if p >= n or the target exceeds n; a successful
\* nextPage ends on its target, and in a 10-page document it goes from 1 to
\* 2 with spread {2, 3}, from 2 to 4 with spread {4, 5}, and stays at 10.
C14_NextPageTarget ==
    \A k \in SettledCalls("nextPage") :
        LET p == ev[k].t.before
            n == ev[k].t.total
            target == IF p = 1 THEN 2 ELSE IF p % 2 = 0 THEN p + 2 ELSE p + 1
        IN /\ IF p >= n \/ target > n
              THEN ev[k].t.page = 0 /\ currentPage = p
              ELSE ev[k].t.page = target
           /\ Succeeded(k) => currentPage = target
           /\ (Succeeded(k) /\ n = 10 /\ p = 1) =>
                  (currentPage = 2 /\ currentSpread = <<2, 3>>)
           /\ (Succeeded(k) /\ n = 10 /\ p = 2) =>
                  (currentPage = 4 /\ currentSpread = <<4, 5>>)
           /\ (n = 10 /\ p = 10) => (~Succeeded(k) /\ currentPage = 10)

\* in a 10-page document, nextPage has gone from page 2 to page 4
C14_NextFromTwo ==
    \E k \in SettledCalls("nextPage") :
        /\ Succeeded(k)
        /\ ev[k].t.total = 10 /\ ev[k].t.before = 2
        /\ currentPage = 4 /\ currentSpread = <<4, 5>>

\* C15: previousPage called at page p asks for page 1 if p is 2 or 3, p - 2
\* if p is even and at least 4, p - 3 if p is odd and at least 5; at page 1
\* it asks for nothing and leaves currentPage at 1; a successful previousPage
\* ends on its target, and in a 10-page document it goes from page 9 to
\* page 6 with spread {6, 7}.
C15_PreviousPageTarget ==
    \A k \in SettledCalls("previousPage") :
        LET p == ev[k].t.before
            n == ev[k].t.total
            target == IF p \in {2, 3} THEN 1
                      ELSE IF p % 2 = 0 THEN p - 2 ELSE p - 3
        IN /\ IF p = 1
              THEN ev[k].t.page = 0 /\ currentPage = 1
              ELSE ev[k].t.page = target
           /\ Succeeded(k) => currentPage = target
           /\ (Succeeded(k) /\ n = 10 /\ p = 9) =>
                  (currentPage = 6 /\ currentSpread = <<6, 7>>)

\* in a 10-page document, previousPage has gone from page 9 to page 6
C15_PreviousFromNine ==
    \E k \in SettledCalls("previousPage") :
        /\ Succeeded(k)
        /\ ev[k].t.total = 10 /\ ev[k].t.before = 9
        /\ currentPage = 6 /\ currentSpread = <<6, 7>>

\* the rasters of cache c that were produced from a document other than d
StaleRasters(c, d) == {q \in DOMAIN c : c[q] # None /\ c[q][1] # d}

\* C16: when a load() has resolved, no entry of pageCache or of renderCache
\* is a raster of another document than the one loaded, and the pages shown
\* are rasters of the document loaded.
C16_LoadDiscardsCaches ==
    \A k \in SettledCalls("load") :
        (ev[k].ok /\ ValidInitialPage)
            => /\ StaleRasters(pageCache, pdfDoc) = {}
               /\ StaleRasters(renderCache, pdfDoc) = {}
               /\ \A j \in 1..2 :
                      shown[j] \in {None, Blank} \/ shown[j][1] = pdfDoc

\* the navigation calls of the last step
NavCalls ==
    {k \in DOMAIN ev :
        /\ ev[k].e = "call"
        /\ ev[k].op \in {"goToPage", "nextPage", "previousPage"}}

\* C17: a step that is a zoom call stores its level in currentZoom and in
\* the layout's scale whatever isAnimating is, leaves currentPage,
\* isAnimating, both caches, the spread and the calls in flight unchanged;
\* and a navigation call is accepted exactly when its page is within
\* 1..totalPages, differs from currentPage and no transition is animating,
\* whatever the zoom level.
C17_ZoomIndependent ==
    [][/\ ZoomCalls' # {} =>
              /\ \A k \in ZoomCalls' : ev'[k].ok /\ ev'[k].total = currentZoom
              /\ currentScale' = currentZoom'
              /\ UNCHANGED <<currentPage, isAnimating, drvAnimating, pageCache,
                             renderCache, currentSpread, shown, visible,
                             tasks, totalPages, pdfDoc>>
       /\ \A k \in NavCalls' :
              ev'[k].ok <=> (/\ ev'[k].page \in 1..totalPages
                            /\ ev'[k].page # currentPage
                            /\ ~isAnimating)]_vars

\* a zoom call made while a transition was animating has changed the level
C17_ZoomWhileAnimating ==
    \E k \in ZoomCalls :
        isAnimating /\ Pending > 0 /\ currentZoom # ev[k].total

\* C18: when a load() has resolved, isAnimating is false and currentPage is
\* options.initialPage clamped to 1..totalPages.
C18_LoadedIdleAtInitialPage ==
    \A k \in SettledCalls("load") :
        ev[k].ok
            => /\ ~isAnimating
               /\ currentPage = Max(1, Min(initialPage, totalPages))

\* C19: when a load() has resolved, the zoom level is options.initialZoom.
C19_LoadResetsZoom ==
    \A k \in SettledCalls("load") :
        (ev[k].ok /\ ValidInitialPage) => currentZoom = initialZoom

\* C20: with valid options, while no load() has resolved, a navigation call
\* is refused: it settles in the step of the call with currentPage as
\* before and isAnimating false, and the step rasterizes no page and invokes
\* no observer.
C20_NoNavigationBeforeLoad ==
    \A k \in NavCalls :
        (~loaded /\ ValidInitialPage)
            => /\ ~ev[k].ok
               /\ ~isAnimating
               /\ \A j \in SettledCalls(ev[k].op) :
                      currentPage = ev[j].t.before
               /\ \A j \in DOMAIN ev : ev[j].e \in {"call", "settled"}

\* the pages whose fetch has completed: their raster is in pageCache
Fetched == {p \in Pages : pageCache[p] # None}

\* the rasters that call i received from getOrRenderPage in the step
Received(i) ==
    IF Len(tasks'[i].cv) > Len(tasks[i].cv)
    THEN {tasks'[i].cv[n] : n \in (Len(tasks[i].cv) + 1)..Len(tasks'[i].cv)}
         \ {Blank}
    ELSE {}

\* C21: in a step that does not clear the cache, for a page p whose fetch
\* completed before the step: the entry of p in pageCache stays the identical
\* raster, a fetch of p that starts in the step returns that raster, the
\* rasterizer is not invoked for p and no call starts to ask the document
\* for p.
C21_CacheHit ==
    [][\A p \in Fetched :
          ~destroyed' =>
              /\ pageCache'[p] = pageCache[p]
              /\ \A i \in Slots : \A c \in Received(i) :
                     (c[2] = p /\ tasks[i].fpage # p) => c = pageCache[p]
              /\ \A k \in DOMAIN ev' :
                     ~(ev'[k].e = "rasterize" /\ ev'[k].page = p)
              /\ \A i \in Slots :
                     (tasks'[i].fpc = "getPage" /\ tasks'[i].fpage = p)
                         => (tasks[i].fpc = "getPage" /\ tasks[i].fpage = p
                             /\ tasks[i].kind = tasks'[i].kind)]_vars

\* the navigation calls in flight
Gotos == {i \in Slots : tasks[i].kind = "goto"}

\* a step in which a navigation call made while isAnimating is true is
\* refused and changes nothing
DroppedStep ==
    (isAnimating /\ NavCalls' # {}) =>
        /\ \A k \in NavCalls' : ~ev'[k].ok
        /\ UNCHANGED <<currentPage, totalPages, isAnimating, drvAnimating,
                       pageCache, renderCache, currentSpread, shown, visible,
                       tasks>>

\* a step in which no navigation starts unless it is a navigation call
NoneStartsAlone == NavCalls' = {} => Gotos' \subseteq Gotos

renderedSpread(page, total) ==
    IF page = 1 THEN <<1, 0>>
    ELSE IF total % 2 = 1 /\ page = total THEN <<total, 0>>
    ELSE IF page % 2 = 0 THEN <<page, page + 1>>
    ELSE <<page - 1, page>>

\* C23: with a document loaded from valid options and every page
\* rasterizing, when no call is in flight the spread recorded by the layout
\* is the spread that renderCurrentSpread derives from currentPage.
C23_SpreadFollowsCurrentPage ==
    (LoadedValid /\ badPages = {} /\ Pending = 0)
        => currentSpread = renderedSpread(currentPage, totalPages)

\* C24: with a document loaded from valid options, when onPageChange is
\* invoked for a navigation call that ends as a successful transition,
\* isAnimating is false (an invocation records in its field ok the value
\* of isAnimating at that moment).
C24_IdleBeforePageChange ==
    \A k \in PageChanges : \A j \in SucceededGotos :
        (LoadedValid /\ ev[k].op = ev[j].op) => ~ev[k].ok

\* the goToPage calls of the last step that the guard of goToPage refuses
RefusedCalls ==
    {k \in DOMAIN ev :
        /\ ev[k].e = "call" /\ ev[k].op = "goToPage"
        /\ ~ev[k].ok}

\* C25: a step that is a goToPage(page) call with page < 1, page >
\* totalPages, page = currentPage or isAnimating true refuses the call and
\* leaves currentPage, isAnimating, the spread, the pages shown, both caches
\* and the calls in flight unchanged; it rasterizes nothing, starts no flip
\* and invokes no observer.
C25_RejectedGoToPageIsNoOp ==
    [][\A k \in DOMAIN ev' :
          (/\ ev'[k].e = "call" /\ ev'[k].op = "goToPage"
           /\ \/ ev'[k].page < 1
              \/ ev'[k].page > totalPages
              \/ ev'[k].page = currentPage
              \/ isAnimating)
          => /\ ~ev'[k].ok
             /\ UNCHANGED <<currentPage, totalPages, isAnimating, drvAnimating,
                            currentSpread, shown, visible, pageCache,
                            renderCache, gen, tasks>>
             /\ \A j \in DOMAIN ev' : ev'[j].e \in {"call", "settled"}]_vars

\* a goToPage call to another page of the document was refused while a
\* transition was animating
C25_RefusedWhileAnimating ==
    \E k \in RefusedCalls :
        /\ ev[k].page \in 1..totalPages /\ ev[k].page # currentPage
        /\ isAnimating /\ Pending > 0

\* the animated transitions in flight: the goToPage calls between line 317
\* and the end of the finally block
Transitions ==
    {i \in Gotos : tasks[i].ctx \in {"gotoT", "flip", "gotoS", "gotoR"}}

\* C26: isAnimating is false in every state where no goToPage call is in
\* flight, and in every state where it is true exactly one animated
\* transition is in flight.
C26_AnimatingOnlyInTransition ==
    /\ Gotos = {} => ~isAnimating
    /\ isAnimating => Cardinality(Transitions) = 1

\* isAnimating is true while the transition and another goToPage call, one
\* without animation, are in flight
C26_AnimatingBesideOtherCall ==
    isAnimating /\ Cardinality(Transitions) = 1 /\ Cardinality(Gotos) = 2

\* no load() is in flight
NoLoadInFlight == \A i \in Slots : tasks[i].kind # "load"

\* C27: in a step made after a load() resolved, with no load() in flight,
\* that is not destroy(): a raster stored for page p, in the cache of the
\* viewer or in that of the renderer, is still stored for p after the step
\* and is the identical raster.
C27_NoEviction ==
    [][(LoadedValid /\ NoLoadInFlight /\ ~destroyed')
          => \A p \in Pages :
                 /\ pageCache[p] # None => pageCache'[p] = pageCache[p]
                 /\ renderCache[p] # None => renderCache'[p] = renderCache[p]]_vars

\* the pages of a document of n pages that spread sp shows
SpreadPages(sp, n) == {sp[1], sp[2]} \cap 1..n

First(S) == CHOOSE x \in S : \A y \in S : x <= y
Last(S) == CHOOSE x \in S : \A y \in S : x >= y

\* spread b comes immediately after spread a: no page in both, none between
Follows(a, b) == a # {} /\ b # {} /\ Last(a) + 1 = First(b)

\* C28: with a document loaded from valid options and every page
\* rasterizing, when a nextPage (a previousPage) call has moved, the spread
\* shown after it is the spread immediately after (before) the spread shown
\* when it was called: the two share no page and no page number between
\* them is skipped.
C28_WholeSpreadNavigation ==
    /\ \A k \in SettledCalls("nextPage") :
           (LoadedValid /\ badPages = {} /\ Succeeded(k))
               => Follows(SpreadPages(ev[k].t.cs, ev[k].t.total),
                          SpreadPages(currentSpread, totalPages))
    /\ \A k \in SettledCalls("previousPage") :
           (LoadedValid /\ badPages = {} /\ Succeeded(k))
               => Follows(SpreadPages(currentSpread, totalPages),
                          SpreadPages(ev[k].t.cs, ev[k].t.total))

\* the raster c is one of page n, or the empty canvas if n is no page
RasterOf(c, n) == IF n = 0 THEN c = Blank ELSE (c # Blank /\ c[2] = n)

\* the animated transitions that settled in the last step
SettledTransitions ==
    {k \in SettledGotos : ev[k].t.ctx \in {"gotoS", "gotoR"}}

\* C29: with a document loaded from valid options and every page
\* rasterizing, an animated transition that has settled invoked the flip of
\* the driver exactly once: flipForward if its page is after the old page,
\* flipBackward if before; with the rasters of the left and right page of
\* the spread shown at the call and of the spread of the new page, an empty
\* canvas for a slot without a page.
C29_DirectionSelection ==
    \A k \in SettledTransitions :
        LET t == ev[k].t
            new == renderedSpread(t.page, t.total)
        IN (LoadedValid /\ badPages = {}) =>
            /\ t.page # t.oldPage
            /\ t.flips = <<IF t.page > t.oldPage THEN "forward"
                                                 ELSE "backward">>
            /\ Len(t.cv) = 4
            /\ RasterOf(t.cv[1], t.cs[1]) /\ RasterOf(t.cv[2], t.cs[2])
            /\ RasterOf(t.cv[3], new[1]) /\ RasterOf(t.cv[4], new[2])

\* the page numbers that the calls in flight have asked pdfDoc.getPage for
Requested == {tasks[i].fpage : i \in {j \in Slots : tasks[j].fpc = "getPage"}}

\* C30: with a document loaded from valid options, every page number that
\* getOrRenderPage asks the document for is a page of the document: it lies
\* in 1..totalPages.
C30_RequestsInRange ==
    LoadedValid => Requested \subseteq 1..totalPages

\* C31: with a document loaded from valid options, every page rasterizing
\* and a driver that does not throw, a previousPage() called at a page after
\* the first, by a client that awaits its calls, settles with currentPage
\* smaller than it was at the call.
C31_BackwardProgress ==
    \A k \in SettledCalls("previousPage") :
        (/\ LoadedValid /\ badPages = {}
         /\ ~ev[k].t.drvRejected
         /\ Pending = 0
         /\ ev[k].t.before > 1)
            => currentPage < ev[k].t.before

\* C32: when an animated transition settles during which a load() assigned
\* the document and currentPage, and no call is left in flight, currentPage
\* is options.initialPage, a page of the document loaded, and isAnimating
\* is false.
C32_LoadNotOverwritten ==
    \A k \in SettledTransitions :
        (loaded /\ ev[k].t.reloaded /\ Pending = 0)
            => /\ currentPage = initialPage
               /\ currentPage \in 1..totalPages
               /\ ~isAnimating

\* the calls of op that settled in the last step as a successful
\* transition and were made right after a successful call of first
RoundTrips(first, op) ==
    {k \in SettledCalls(op) :
        /\ Succeeded(k)
        /\ ev[k].t.prior # <<>>
        /\ ev[k].t.prior[1] = first}

\* C33: with a document loaded from valid options and every page
\* rasterizing, when a successful nextPage() that followed a successful
\* previousPage() has settled, the spread shown is the spread that was shown
\* when previousPage() was called.
C33_PreviousThenNext ==
    \A k \in RoundTrips("previousPage", "nextPage") :
        (LoadedValid /\ badPages = {}) => currentSpread = ev[k].t.prior[2]

\* C34: with a document loaded from valid options and every page
\* rasterizing, when a successful previousPage() that followed a successful
\* nextPage() has settled, the spread shown is the spread that was shown
\* when nextPage() was called.
C34_NextThenPrevious ==
    \A k \in RoundTrips("nextPage", "previousPage") :
        (LoadedValid /\ badPages = {}) => currentSpread = ev[k].t.prior[2]

\* nextPage() from page 2 and then previousPage() are back on the spread
\* {2, 3} of a document of more than three pages
C34_BackOnSecondSpread ==
    \E k \in RoundTrips("nextPage", "previousPage") :
        /\ LoadedValid /\ badPages = {}
        /\ totalPages > 3
        /\ ev[k].t.before = 4 /\ currentPage = 2
        /\ currentSpread = <<2, 3>> /\ ev[k].t.prior[2] = <<2, 3>>

\* the invocations of the error observer in the last step
Errors == {j \in DOMAIN ev : ev[j].e = "onError"}

\* C35: when a load has failed, whether the client called load() or the
\* constructor started it, onError has been invoked exactly once for it.
C35_OneErrorPerFailedLoad ==
    \A k \in SettledCalls("load") :
        ~ev[k].ok => Cardinality(Errors) = 1

\* C36: every invocation of onPageChange is made by a load or by a
\* navigation call that was accepted; none is made by a zoom call or by the
\* window resize handler, and a step with a zoom call invokes no observer.
C36_PageChangeOnlyFromNavigation ==
    /\ \A j \in PageChanges :
           ev[j].op \in {"load", "goToPage", "nextPage", "previousPage"}
    /\ ZoomCalls # {} => PageChanges = {}

\* C37: in every state where isAnimating is false and no goToPage call is
\* in flight the page containers are visible, and whenever they are hidden
\* an animated transition is in flight.
C37_HiddenOnlyInTransition ==
    /\ (~isAnimating /\ Gotos = {}) => visible
    /\ ~visible => Transitions # {}

\* a transition whose flip was rejected and whose rollback re-render failed
\* has settled, and the pages are visible
C37_VisibleAfterFailedRollback ==
    \E k \in SettledTransitions :
        /\ ~ev[k].ok
        /\ ev[k].t.drvRejected
        /\ ev[k].t.ctx = "gotoR"
        /\ visible /\ ~isAnimating /\ Gotos = {}

\* the calls of flipForward / flipBackward of the three.js driver in flight
DriverFlips ==
    {i \in Slots : tasks[i].ctx = "flip" /\ tasks[i].stage = "three"}

\* C38: with options that name a page of the document, in every state
\* where no flipForward or flipBackward call of the three.js driver is in
\* flight, the driver's own isAnimating is false.
C38_DriverIdleBetweenFlips ==
    (ValidInitialPage /\ DriverFlips = {}) => ~drvAnimating

====
